---- MODULE Spec2Model ----
(***************************************************************************)
(* Model of .github/workflows/scripts/detect_release.py: the release       *)
(* gating script that compares the version of each binary crate's manifest *)
(* in the working tree with the version at a base commit.                  *)
(*                                                                         *)
(* Python values are represented as follows.                               *)
(*   str            a sequence of one-character strings, "1.0" being       *)
(*                  <<"1", ".", "0">>.  The token "sup2" stands for the     *)
(*                  character U+00B2 (SUPERSCRIPT TWO), for which          *)
(*                  str.isdigit() is True while int() raises ValueError;   *)
(*                  "LF" stands for the newline character.                 *)
(*   None           the one-token sequence None (no str holds that token). *)
(*   file text      a record [kind, version]: the classes of manifest text *)
(*                  that tomllib.loads and data["package"]["version"]      *)
(*                  tell apart.                                            *)
(*   a call result  a record with a field raised, "" when the call returns *)
(*                  and the exception's class name when it raises.        *)
(***************************************************************************)
EXTENDS Naturals, Sequences, FiniteSets

VARIABLES
  env_before,             \* os.environ BEFORE_SHA ("" when unset)
  env_output,             \* os.environ GITHUB_OUTPUT ("" when unset)
  git_ok,                 \* whether the git executable can be started
  rev_parse_out,          \* what `git rev-parse HEAD^` answers in this repository
  worktree,               \* path -> manifest file of the working tree
  history,                \* path -> what `git show <base>:<path>` answers
  pc,                     \* position of main()
  before_sha,
  idx,                    \* position of the for loop in BINARY_CRATES
  current_version,
  prev_content,
  previous_version,
  is_first_release,
  version_bumped,
  server_release_needed,
  client_release_needed,
  server_version,
  client_version,
  trace,                  \* subprocess calls, file reads and printed lines, in order
  out_file,               \* the lines of the GITHUB_OUTPUT file
  exc,                    \* class of the exception that ended the run, "" if none
  exc_in                  \* function that raised it

vars == <<env_before, env_output, git_ok, rev_parse_out, worktree, history, pc,
          before_sha, idx, current_version, prev_content, previous_version,
          is_first_release, version_bumped, server_release_needed,
          client_release_needed, server_version, client_version, trace,
          out_file, exc, exc_in>>

inputs == <<env_before, env_output, git_ok, rev_parse_out, worktree, history>>

\* Longest version string given to compare_versions on its own.
MaxLen == 3

---------------------------------------------------------------------------
(* Python values *)

None == <<"None">>

NoneText == [kind |-> "None", version |-> <<>>]

Truthy(v) == v # None /\ v # <<>>

TruthyText(t) == t.kind \notin {"None", "empty"}

AsciiDigits == {"0", "1", "2", "3", "4", "5", "6", "7", "8", "9"}

Whitespace == {"LF", " "}

Alphabet == {"0", "1", ".", "a", "sup2"}

RECURSIVE Strs(_)
Strs(n) == IF n = 0 THEN {<<>>}
           ELSE LET shorter == Strs(n - 1)
                IN  shorter \cup {Append(s, c) : s \in {t \in shorter : Len(t) = n - 1}, c \in Alphabet}

DigitVal(c) == CASE c = "0" -> 0 [] c = "1" -> 1 [] c = "2" -> 2 [] c = "3" -> 3
                 [] c = "4" -> 4 [] c = "5" -> 5 [] c = "6" -> 6 [] c = "7" -> 7
                 [] c = "8" -> 8 [] c = "9" -> 9

\* str.split("."): the pieces between the dots, empty pieces kept.
RECURSIVE split(_)
split(v) ==
  IF \A i \in 1..Len(v) : v[i] # "."
  THEN <<v>>
  ELSE LET i == CHOOSE k \in 1..Len(v) : v[k] = "." /\ \A j \in 1..(k - 1) : v[j] # "."
       IN  <<SubSeq(v, 1, i - 1)>> \o split(SubSeq(v, i + 1, Len(v)))

\* str.isdigit(): non-empty and every character has the Unicode digit property.
isdigit(p) == Len(p) > 0 /\ \A i \in 1..Len(p) : p[i] \in AsciiDigits \cup {"sup2"}

\* int(p) raises ValueError unless p is a decimal literal.
int_raises(p) == Len(p) = 0 \/ \E i \in 1..Len(p) : p[i] \notin AsciiDigits

\* int(p) for a string of decimal digits.
RECURSIVE int(_)
int(p) == IF Len(p) = 0 THEN 0
          ELSE 10 * int(SubSeq(p, 1, Len(p) - 1)) + DigitVal(p[Len(p)])

\* str.strip(): leading and trailing whitespace removed.
RECURSIVE strip(_)
strip(s) == IF Len(s) > 0 /\ s[1] \in Whitespace THEN strip(Tail(s))
            ELSE IF Len(s) > 0 /\ s[Len(s)] \in Whitespace THEN strip(SubSeq(s, 1, Len(s) - 1))
            ELSE s

\* f"{v}" for a str or None.
fmt(v) == IF v = None THEN <<"N", "o", "n", "e">> ELSE v

---------------------------------------------------------------------------
(* compare_versions *)

version_tuple(v) ==
  LET kept == SelectSeq(split(v), isdigit)
  IN  IF \E i \in 1..Len(kept) : int_raises(kept[i])
      THEN [raised |-> "ValueError", value |-> <<>>]
      ELSE [raised |-> "", value |-> [i \in 1..Len(kept) |-> int(kept[i])]]

\* a > b for tuples of int.
RECURSIVE tuple_gt(_, _)
tuple_gt(a, b) ==
  IF Len(a) = 0 THEN FALSE
  ELSE IF Len(b) = 0 THEN TRUE
  ELSE IF a[1] # b[1] THEN a[1] > b[1]
  ELSE tuple_gt(Tail(a), Tail(b))

compare_versions(prev, curr) ==
  IF prev = None \/ curr = None THEN FALSE
  ELSE LET prev_tuple == version_tuple(prev)
           curr_tuple == version_tuple(curr)
       IN  IF prev_tuple.raised # "" \/ curr_tuple.raised # ""
           THEN prev # curr
           ELSE tuple_gt(curr_tuple.value, prev_tuple.value)

---------------------------------------------------------------------------
(* Configuration and the environment of a run *)

\* The table of lines 7-9, in insertion order.  It maps no crate to the
\* server role, so the "chatty-server" branch of lines 96-103 is never taken.
BINARY_CRATES == << [path |-> "crates/chatty_client_gui/Cargo.toml", name |-> "chatty"] >>

Paths == {BINARY_CRATES[i].path : i \in 1..Len(BINARY_CRATES)}

\* "0" * 40
NULL_SHA == [i \in 1..40 |-> "0"]

\* Version strings a manifest of a run declares.
Versions == { <<>>, <<"1", ".", "0">>, <<"1", ".", "1">>, <<"1", ".", "0", ".", "0">>,
              <<"a">>, <<"1", ".", "sup2">> }

\* Manifest texts: empty, not TOML, TOML without a package key, TOML whose
\* package is not a table, a package table without version, a package
\* table with a version string.
Texts == [kind : {"empty", "malformed", "no_package", "package_not_table", "no_version"},
          version : {<<>>}]
         \cup [kind : {"version"}, version : Versions]

\* A path of the working tree: no such file, or a file with a text.
Files == {[kind |-> "missing", version |-> <<>>]} \cup Texts

\* What a git command answers when git can be started: a return code and stdout.
ShowAnswers == {[rc |-> 128, stdout |-> NoneText]} \cup [rc : {0}, stdout : Texts]

RevParseAnswers == {[rc |-> 128, stdout |-> <<>>], [rc |-> 0, stdout |-> <<>>],
                    [rc |-> 0, stdout |-> <<"LF">>],
                    [rc |-> 0, stdout |-> <<"c", "d", "LF">>]}

BeforeEnv == {<<>>, <<"a", "b">>, NULL_SHA}

OutputEnv == {"", "github_output"}

\* Content of the output file before the run (it is opened for appending).
PriorOutput == {<<>>, << <<"prior", "=", "x">> >>}

Event(op, cmd, ref, path, line) ==
  [op |-> op, cmd |-> cmd, ref |-> ref, path |-> path, line |-> line]

RunEvent(cmd, ref, path) == Event("run", cmd, ref, path, <<>>)

ReadEvent(path) == Event("read", "", <<>>, path, <<>>)

PrintEvent(line) == Event("print", "", <<>>, "", line)

Returned(v) == [raised |-> "", value |-> v]

Raised(e) == [raised |-> e, value |-> None]

---------------------------------------------------------------------------
(* get_version *)

\* Path(p).read_text()
read_text(fs, path) ==
  IF fs[path].kind = "missing"
  THEN [raised |-> "FileNotFoundError", value |-> NoneText]
  ELSE [raised |-> "", value |-> fs[path]]

\* tomllib.loads(content)["package"]["version"]
package_version(content) ==
  CASE content.kind = "malformed"         -> Raised("TOMLDecodeError")
    [] content.kind = "empty"             -> Raised("KeyError")
    [] content.kind = "no_package"        -> Raised("KeyError")
    [] content.kind = "package_not_table" -> Raised("TypeError")
    [] content.kind = "no_version"        -> Raised("KeyError")
    [] content.kind = "version"           -> Returned(content.version)

get_version(fs, cargo_toml_path, content) ==
  LET rd == IF content = NoneText THEN read_text(fs, cargo_toml_path)
            ELSE [raised |-> "", value |-> content]
      r  == IF rd.raised # "" THEN Raised(rd.raised) ELSE package_version(rd.value)
  IN  IF r.raised \in {"FileNotFoundError", "KeyError"} THEN Returned(None) ELSE r

---------------------------------------------------------------------------
(* get_previous_content *)

\* subprocess.run(..., check=True): the executable is started or
\* FileNotFoundError is raised; a non-zero return code raises CalledProcessError.
subprocess_run(git, answer, none) ==
  IF ~git THEN [raised |-> "FileNotFoundError", value |-> none]
  ELSE IF answer.rc # 0 THEN [raised |-> "CalledProcessError", value |-> none]
  ELSE [raised |-> "", value |-> answer.stdout]

\* get_previous_content without the null-reference test of lines 23-24.
get_previous_content_unchecked(git, repo, sha, path) ==
  LET r == subprocess_run(git, repo[path], NoneText)
      calls == <<RunEvent("show", sha, path)>>
  IN  IF r.raised = "CalledProcessError"
      THEN [raised |-> "", value |-> NoneText, calls |-> calls]
      ELSE [raised |-> r.raised, value |-> r.value, calls |-> calls]

get_previous_content(git, repo, sha, path) ==
  IF sha = NULL_SHA
  THEN [raised |-> "", value |-> NoneText, calls |-> <<>>]
  ELSE LET r == subprocess_run(git, repo[path], NoneText)
           calls == <<RunEvent("show", sha, path)>>
       IN  IF r.raised = "CalledProcessError"
           THEN [raised |-> "", value |-> NoneText, calls |-> calls]
           ELSE [raised |-> r.raised, value |-> r.value, calls |-> calls]

---------------------------------------------------------------------------
(* main *)

\* Lines 55-70: the base commit.
resolve_before_sha(env, git, answer) ==
  IF env # <<>>
  THEN [raised |-> "", value |-> env, calls |-> <<>>]
  ELSE LET r == subprocess_run(git, answer, <<>>)
           calls == <<RunEvent("rev-parse", <<"H", "E", "A", "D", "^">>, "")>>
       IN  IF r.raised = "CalledProcessError"
           THEN [raised |-> "", value |-> NULL_SHA, calls |-> calls]
           ELSE IF r.raised # ""
           THEN [raised |-> r.raised, value |-> env, calls |-> calls]
           ELSE [raised |-> "", calls |-> calls,
                 value |-> IF strip(r.value) = <<>> THEN NULL_SHA ELSE strip(r.value)]

\* Line 85.
first_release(previous) == previous = None

\* Line 86.
bumped(previous, current) ==
  IF Truthy(previous) THEN compare_versions(previous, current) ELSE FALSE

\* output_lines without the tests of lines 114 and 116.
output_lines_unguarded(srn, crn, sv, cv) ==
  << <<"server_release_needed", "=", IF srn THEN "true" ELSE "false">>,
     <<"client_release_needed", "=", IF crn THEN "true" ELSE "false">>,
     <<"server_version", "=">> \o fmt(sv),
     <<"client_version", "=">> \o fmt(cv) >>

\* Lines 112-117: the lines appended to the output file.
output_lines(srn, crn, sv, cv) ==
  << <<"server_release_needed", "=", IF srn THEN "true" ELSE "false">>,
     <<"client_release_needed", "=", IF crn THEN "true" ELSE "false">> >>
  \o (IF Truthy(sv) THEN << <<"server_version", "=">> \o sv >> ELSE <<>>)
  \o (IF Truthy(cv) THEN << <<"client_version", "=">> \o cv >> ELSE <<>>)

\* Lines 107-108: the summary printed at the end.
summary_lines(srn, crn) ==
  << PrintEvent(<<"LF", "Server release needed: ", IF srn THEN "True" ELSE "False">>),
     PrintEvent(<<"Client release needed: ", IF crn THEN "True" ELSE "False">>) >>

Crash(e, f) == pc' = "crashed" /\ exc' = e /\ exc_in' = f

crate == BINARY_CRATES[idx]

LoopOrEmit(i) == IF i <= Len(BINARY_CRATES) THEN "read_current" ELSE "emit"

Init ==
  /\ env_before \in BeforeEnv
  /\ env_output \in OutputEnv
  /\ git_ok \in BOOLEAN
  /\ rev_parse_out \in RevParseAnswers
  /\ worktree \in [Paths -> Files]
  /\ history \in [Paths -> ShowAnswers]
  /\ out_file \in PriorOutput
  /\ pc = "start"
  /\ before_sha = <<>>
  /\ idx = 1
  /\ current_version = None
  /\ prev_content = NoneText
  /\ previous_version = None
  /\ is_first_release = FALSE
  /\ version_bumped = FALSE
  /\ server_release_needed = FALSE
  /\ client_release_needed = FALSE
  /\ server_version = None
  /\ client_version = None
  /\ trace = <<>>
  /\ exc = ""
  /\ exc_in = ""

\* Lines 55-75.
ResolveBase ==
  /\ pc = "start"
  /\ LET r == resolve_before_sha(env_before, git_ok, rev_parse_out)
     IN  /\ trace' = trace \o r.calls
         /\ before_sha' = r.value
         /\ IF r.raised # "" THEN Crash(r.raised, "main")
            ELSE pc' = LoopOrEmit(1) /\ UNCHANGED <<exc, exc_in>>
  /\ UNCHANGED <<inputs, idx, current_version, prev_content, previous_version,
                 is_first_release, version_bumped, server_release_needed,
                 client_release_needed, server_version, client_version, out_file>>

\* Line 78.
ReadCurrent ==
  /\ pc = "read_current"
  /\ LET r == get_version(worktree, crate.path, NoneText)
     IN  /\ trace' = Append(trace, ReadEvent(crate.path))
         /\ IF r.raised # ""
            THEN Crash(r.raised, "get_version") /\ UNCHANGED current_version
            ELSE /\ current_version' = r.value
                 /\ pc' = "fetch_previous"
                 /\ UNCHANGED <<exc, exc_in>>
  /\ UNCHANGED <<inputs, before_sha, idx, prev_content, previous_version,
                 is_first_release, version_bumped, server_release_needed,
                 client_release_needed, server_version, client_version, out_file>>

\* Line 79 moved under the test of line 84: no fetch without a current version.
FetchPreviousIfCurrent ==
  /\ pc = "fetch_previous"
  /\ LET r == IF Truthy(current_version)
              THEN get_previous_content(git_ok, history, before_sha, crate.path)
              ELSE [raised |-> "", value |-> NoneText, calls |-> <<>>]
     IN  /\ trace' = trace \o r.calls
         /\ IF r.raised # ""
            THEN Crash(r.raised, "get_previous_content") /\ UNCHANGED prev_content
            ELSE /\ prev_content' = r.value
                 /\ pc' = "parse_previous"
                 /\ UNCHANGED <<exc, exc_in>>
  /\ UNCHANGED <<inputs, before_sha, idx, current_version, previous_version,
                 is_first_release, version_bumped, server_release_needed,
                 client_release_needed, server_version, client_version, out_file>>

\* Line 79.
FetchPrevious ==
  /\ pc = "fetch_previous"
  /\ LET r == get_previous_content(git_ok, history, before_sha, crate.path)
     IN  /\ trace' = trace \o r.calls
         /\ IF r.raised # ""
            THEN Crash(r.raised, "get_previous_content") /\ UNCHANGED prev_content
            ELSE /\ prev_content' = r.value
                 /\ pc' = "parse_previous"
                 /\ UNCHANGED <<exc, exc_in>>
  /\ UNCHANGED <<inputs, before_sha, idx, current_version, previous_version,
                 is_first_release, version_bumped, server_release_needed,
                 client_release_needed, server_version, client_version, out_file>>

\* Line 80.
ParsePrevious ==
  /\ pc = "parse_previous"
  /\ LET r == IF TruthyText(prev_content)
              THEN get_version(worktree, crate.path, prev_content)
              ELSE Returned(None)
     IN  IF r.raised # ""
         THEN Crash(r.raised, "get_version") /\ UNCHANGED previous_version
         ELSE /\ previous_version' = r.value
              /\ pc' = "decide"
              /\ UNCHANGED <<exc, exc_in>>
  /\ UNCHANGED <<inputs, before_sha, idx, current_version, prev_content,
                 is_first_release, version_bumped, server_release_needed,
                 client_release_needed, server_version, client_version, trace,
                 out_file>>

\* Lines 82-105.
Decide ==
  /\ pc = "decide"
  /\ LET name   == crate.name
         ifr    == first_release(previous_version)
         vb     == bumped(previous_version, current_version)
         needed == ifr \/ vb
         line   == PrintEvent(<<name, ": ">> \o fmt(previous_version) \o <<" -> ">>
                              \o fmt(current_version))
         why    == IF ifr THEN "first release" ELSE "version bumped"
     IN  IF Truthy(current_version)
         THEN /\ is_first_release' = ifr
              /\ version_bumped' = vb
              /\ client_version' = IF name = "chatty" THEN current_version ELSE client_version
              /\ client_release_needed' =
                   IF name = "chatty" /\ needed THEN TRUE ELSE client_release_needed
              /\ server_version' =
                   IF name = "chatty-server" THEN current_version ELSE server_version
              /\ server_release_needed' =
                   IF name = "chatty-server" /\ needed THEN TRUE ELSE server_release_needed
              /\ trace' = Append(trace, line) \o
                   (IF name = "chatty" /\ needed
                    THEN <<PrintEvent(<<"  (check) Client release needed: ", why>>)>>
                    ELSE IF name = "chatty-server" /\ needed
                    THEN <<PrintEvent(<<"  (check) Server release needed: ", why>>)>>
                    ELSE <<>>)
         ELSE /\ trace' = trace \o <<line,
                            PrintEvent(<<"  (cross) Could not determine version for ", name>>)>>
              /\ UNCHANGED <<is_first_release, version_bumped, server_release_needed,
                             client_release_needed, server_version, client_version>>
  /\ idx' = idx + 1
  /\ pc' = LoopOrEmit(idx + 1)
  /\ UNCHANGED <<inputs, before_sha, current_version, prev_content, previous_version,
                 out_file, exc, exc_in>>

\* Lines 107-117.
Emit ==
  /\ pc = "emit"
  /\ trace' = trace \o summary_lines(server_release_needed, client_release_needed)
  /\ out_file' = IF env_output # ""
                 THEN out_file \o output_lines(server_release_needed, client_release_needed,
                                               server_version, client_version)
                 ELSE out_file
  /\ pc' = "done"
  /\ UNCHANGED <<inputs, before_sha, idx, current_version, prev_content, previous_version,
                 is_first_release, version_bumped, server_release_needed,
                 client_release_needed, server_version, client_version, exc, exc_in>>

Next == ResolveBase \/ ReadCurrent \/ FetchPrevious \/ ParsePrevious \/ Decide \/ Emit

Spec == Init /\ [][Next]_vars

---------------------------------------------------------------------------
(* compare_versions on its own: every pair of optional version strings *)

InitCompare ==
  /\ previous_version \in Strs(MaxLen) \cup {None}
  /\ current_version \in Strs(MaxLen) \cup {None}
  /\ pc = "compare"
  /\ version_bumped = FALSE
  /\ env_before = <<>>
  /\ env_output = ""
  /\ git_ok = TRUE
  /\ rev_parse_out = [rc |-> 0, stdout |-> <<>>]
  /\ worktree = [p \in Paths |-> [kind |-> "missing", version |-> <<>>]]
  /\ history = [p \in Paths |-> [rc |-> 128, stdout |-> NoneText]]
  /\ out_file = <<>>
  /\ before_sha = <<>>
  /\ idx = 1
  /\ prev_content = NoneText
  /\ is_first_release = FALSE
  /\ server_release_needed = FALSE
  /\ client_release_needed = FALSE
  /\ server_version = None
  /\ client_version = None
  /\ trace = <<>>
  /\ exc = ""
  /\ exc_in = ""

Compare ==
  /\ pc = "compare"
  /\ version_bumped' = compare_versions(previous_version, current_version)
  /\ pc' = "compared"
  /\ UNCHANGED <<inputs, before_sha, idx, current_version, prev_content, previous_version,
                 is_first_release, server_release_needed, client_release_needed,
                 server_version, client_version, trace, out_file, exc, exc_in>>

NextCompare == Compare

SpecCompare == InitCompare /\ [][NextCompare]_vars

---------------------------------------------------------------------------
(* Vocabulary of the properties *)

\* The manifest path of the crate released as the client.
ClientPath == BINARY_CRATES[1].path

\* The version string a manifest file declares, None when it declares none.
DeclaredVersion(file) == IF file.kind = "version" THEN file.version ELSE None

Key(line) == line[1]

LineValue(line) == SubSeq(line, 3, Len(line))

HasLine(key) == \E i \in 1..Len(out_file) : Key(out_file[i]) = key

Written(line) == \E i \in 1..Len(out_file) : out_file[i] = line

IsShow(e) == e.op = "run" /\ e.cmd = "show"

IsRevParse(e) == e.op = "run" /\ e.cmd = "rev-parse"

IsDiagnostic(e, name) ==
  e.op = "print" /\ e.line = <<"  (cross) Could not determine version for ", name>>

\* A component made of the decimal digits 0-9 only.
PurelyNumeric(p) == Len(p) > 0 /\ \A i \in 1..Len(p) : p[i] \in AsciiDigits

\* The integer sequence of a version string: its purely numeric components.
IntSeq(v) == LET kept == SelectSeq(split(v), PurelyNumeric)
             IN  [i \in 1..Len(kept) |-> int(kept[i])]

\* a is lexicographically greater than b; a strict prefix is the smaller one.
LexGreater(a, b) ==
  \E k \in 1..Len(a) :
    /\ \A j \in 1..(k - 1) : j <= Len(b) /\ a[j] = b[j]
    /\ (k > Len(b) \/ a[k] > b[k])

\* Every component of v is dropped by the comparator's numeric test.
AllDropped(v) == \A i \in 1..Len(split(v)) : ~isdigit(split(v)[i])

FirstRelease(previous, current) == previous = None /\ current # None

Bump(previous, current) ==
  previous # None /\ current # None /\ compare_versions(previous, current)

---------------------------------------------------------------------------
(* Properties *)

\* C1: once main() has processed the artifact, its release_needed flag is
\* true if and only if the transition is FirstRelease (previous absent,
\* current present) or Bump (both present, current > previous under the
\* comparator), for every previous and current version, the empty string
\* included.
C1_ReleaseNeededIffFirstReleaseOrBump ==
  pc = "done" =>
    (client_release_needed <=>
       (FirstRelease(previous_version, current_version)
          \/ Bump(previous_version, current_version)))

\* C2: for every pair of present version strings, compare_versions returns
\* true exactly when the integer sequence of curr (its purely numeric
\* components) is lexicographically greater than that of prev, a strict
\* prefix being smaller than the longer sequence.
C2_CompareIsLexicographicOrder ==
  (pc = "compared" /\ previous_version # None /\ current_version # None) =>
    (version_bumped <=> LexGreater(IntSeq(current_version), IntSeq(previous_version)))

\* C3: when both version strings are present and every component of each is
\* dropped as non-numeric, compare_versions returns true exactly when the two
\* strings differ.
C3_UnparsableFallsBackToInequality ==
  (/\ pc = "compared"
   /\ previous_version # None /\ current_version # None
   /\ AllDropped(previous_version) /\ AllDropped(current_version)) =>
    (version_bumped <=> current_version # previous_version)

\* C4: get_version never ends the run with an error, whatever the manifest
\* holds: it returns None and main() goes on to the summary and the output.
C4_GetVersionNeverEndsRun ==
  ~(pc = "crashed" /\ exc_in = "get_version")

\* C5: for every base reference other than the null one and every way the
\* version-control query can fail, get_previous_content returns None
\* instead of raising, so the run goes on.
C5_GetPreviousContentNeverRaises ==
  ~(pc = "crashed" /\ exc_in = "get_previous_content")

\* C6 as stated: when the current version of the artifact is absent, a run
\* with an output destination writes neither a client_release_needed line nor
\* a client_version line.
C6_NoKeysForAbsentCurrent ==
  (pc = "done" /\ env_output # "" /\ worktree[ClientPath].kind = "missing") =>
    \A i \in 1..Len(out_file) :
      Key(out_file[i]) \notin {"client_release_needed", "client_version"}

\* C6 as amended: when the current version of the artifact is absent, no
\* client_version line and no client_release_needed=true line is ever
\* written; a run with an output destination that reaches the output step
\* prints the diagnostic, still writes client_release_needed=false, and
\* writes the server role's lines as in any other run.
C6_OnlyVersionKeyOmitted ==
  DeclaredVersion(worktree[ClientPath]) = None =>
    /\ ~HasLine("client_version")
    /\ ~Written(<<"client_release_needed", "=", "true">>)
    /\ (pc = "done" /\ env_output # "") =>
         /\ Written(<<"client_release_needed", "=", "false">>)
         /\ Written(<<"server_release_needed", "=", "false">>)
         /\ ~HasLine("server_version")
         /\ \E i \in 1..Len(trace) : IsDiagnostic(trace[i], "chatty")

C6_Witness ==
  /\ pc = "done" /\ env_output # ""
  /\ worktree[ClientPath].kind = "missing"
  /\ current_version = None
  /\ Written(<<"client_release_needed", "=", "false">>)
  /\ \E i \in 1..Len(trace) : IsDiagnostic(trace[i], "chatty")

\* The run has ended, by returning from main() or by an exception.
Ended == pc \in {"done", "crashed"}

\* C7: with an output destination set, a client_version line is written if
\* and only if the current version of the client crate was resolved, with
\* exactly that version as its value, whatever the transition; a version
\* line with an empty value is never written.
C7_VersionLineIffResolved ==
  /\ (Ended /\ env_output # "") =>
       (HasLine("client_version") <=> Truthy(current_version))
  /\ \A i \in 1..Len(out_file) :
       Key(out_file[i]) \in {"client_version", "server_version"} =>
         /\ LineValue(out_file[i]) = current_version
         /\ LineValue(out_file[i]) # <<>>

\* C8: no `git show` is ever issued for the null reference, and when the
\* base is the null reference no lookup is issued at all and the previous
\* content is None.
C8_NullBaseNeverLooksUp ==
  /\ \A i \in 1..Len(trace) : IsShow(trace[i]) => trace[i].ref # NULL_SHA
  /\ before_sha = NULL_SHA =>
       /\ prev_content = NoneText
       /\ \A i \in 1..Len(trace) : ~IsShow(trace[i])

\* get_previous_content has returned for the null reference, in a repository
\* where a lookup would have found a manifest.
C8_Witness ==
  /\ before_sha = NULL_SHA
  /\ pc = "parse_previous"
  /\ git_ok /\ history[ClientPath].rc = 0 /\ history[ClientPath].stdout.kind = "version"
  /\ prev_content = NoneText

\* C9 as stated: the historical manifest is fetched only if the current
\* version is present.
C9_FetchOnlyIfCurrentPresent ==
  (\E i \in 1..Len(trace) : IsShow(trace[i])) => current_version # None

\* The history fetch of crate i has been passed.
Fetched(i) == i < idx \/ (i = idx /\ pc \in {"parse_previous", "decide"})

\* C9 as amended: the current manifest is read before the historical one is
\* fetched, and the fetch is issued for every artifact whose base is not the
\* null reference, whether or not its current version is present; when it is
\* absent the diagnostic is printed after the fetch and the artifact sets no
\* flag and no version.
C9_FetchAfterReadRegardless ==
  /\ \A i \in 1..Len(trace) :
       IsShow(trace[i]) =>
         \E j \in 1..(i - 1) : trace[j].op = "read" /\ trace[j].path = trace[i].path
  /\ \A c \in 1..Len(BINARY_CRATES) :
       (Fetched(c) /\ before_sha # NULL_SHA) =>
         \E i \in 1..Len(trace) : IsShow(trace[i]) /\ trace[i].path = BINARY_CRATES[c].path
  /\ \A i, j \in 1..Len(trace) :
       (IsShow(trace[i]) /\ IsDiagnostic(trace[j], "chatty")) => i < j
  /\ (pc = "done" /\ ~Truthy(current_version)) =>
       /\ \E j \in 1..Len(trace) : IsDiagnostic(trace[j], "chatty")
       /\ ~client_release_needed
       /\ client_version = None

C9_Witness ==
  /\ pc = "done"
  /\ current_version = None
  /\ \E i \in 1..Len(trace) : IsShow(trace[i])
  /\ \E j \in 1..Len(trace) : IsDiagnostic(trace[j], "chatty")

\* The base commit the claim describes: the explicit reference when it is
\* not empty, else the parent answered by rev-parse, else the null reference.
ExpectedBase ==
  IF env_before # <<>> THEN env_before
  ELSE IF ~git_ok \/ rev_parse_out.rc # 0 \/ strip(rev_parse_out.stdout) = <<>>
  THEN NULL_SHA
  ELSE strip(rev_parse_out.stdout)

\* C10: the base commit is resolved once, before any artifact is processed:
\* a non-empty explicit reference is used unchanged with no parent
\* resolution; otherwise the parent is resolved; if that resolution fails or
\* yields nothing the base is the null reference, and every artifact with a
\* current version is then a first release.
C10_BaseResolvedBeforeArtifacts ==
  pc # "start" =>
    /\ before_sha = ExpectedBase
    /\ ~(pc = "crashed" /\ exc_in = "main")
    /\ \A i \in 1..Len(trace) :
         /\ IsRevParse(trace[i]) => (i = 1 /\ env_before = <<>>)
         /\ IsShow(trace[i]) => trace[i].ref = ExpectedBase
    /\ (env_before = <<>>) => (Len(trace) > 0 /\ IsRevParse(trace[1]))
    /\ (before_sha = NULL_SHA /\ pc = "done" /\ Truthy(current_version)) =>
         (is_first_release /\ client_release_needed)

---------------------------------------------------------------------------
(* Extent of the violations: what TLC finds to hold beside them *)

NoSuperscript(v) == v = None \/ \A i \in 1..Len(v) : v[i] # "sup2"

\* The equivalence of C1 holds whenever neither version is the empty string.
Extent_C1 ==
  (previous_version # <<>> /\ current_version # <<>>) =>
    C1_ReleaseNeededIffFirstReleaseOrBump

\* The order of C2 holds for strings free of non-decimal digit characters.
Extent_C2 ==
  (NoSuperscript(previous_version) /\ NoSuperscript(current_version)) =>
    C2_CompareIsLexicographicOrder

\* Two strings whose components are all dropped never compare as a bump.
Extent_C3 ==
  (/\ pc = "compared"
   /\ previous_version # None /\ current_version # None
   /\ AllDropped(previous_version) /\ AllDropped(current_version)) =>
    ~version_bumped

\* get_version ends the run for text that is not TOML and for a package that
\* is no table, and for nothing else.
Extent_C4 ==
  (pc = "crashed" /\ exc_in = "get_version") => exc \in {"TOMLDecodeError", "TypeError"}

\* get_previous_content raises only when git cannot be started.
Extent_C5 ==
  (pc = "crashed" /\ exc_in = "get_previous_content") =>
    (exc = "FileNotFoundError" /\ ~git_ok)

\* Whenever the output step has run, the equivalence of C7 holds.
Extent_C7 ==
  (pc = "done" /\ env_output # "") =>
    (HasLine("client_version") <=> Truthy(DeclaredVersion(worktree[ClientPath])))

\* The resolution of C10 holds whenever git can be started.
Extent_C10 ==
  (git_ok \/ env_before # <<>>) => C10_BaseResolvedBeforeArtifacts

====
